---- MODULE Spec2Model ----
(***************************************************************************)
(* PaperCrypt command layer: the `generate` command (cmd/generate.go), the *)
(* `qr` command with its version sniffing, and the process-wide variables  *)
(* both commands share.  Strings whose characters matter (version strings, *)
(* serial numbers) are sequences of one-character strings.                 *)
(***************************************************************************)
EXTENDS Integers, Sequences, FiniteSets, TLC

(***************************************************************************)
(* Bounds                                                                  *)
(***************************************************************************)
\* number of command invocations (cobra Execute calls) in one process
MaxCalls == 2

\* length in bytes of a text the serializers produce
TextLen == 2

\* length in bytes of the payload the qr command reads
DataLen == 2

(***************************************************************************)
(* strings / strconv                                                       *)
(***************************************************************************)
Digits == <<"0", "1", "2", "3", "4", "5", "6", "7", "8", "9">>

IsDigit(c) == \E i \in 1..10 : Digits[i] = c

DigitVal(c) == (CHOOSE i \in 1..10 : Digits[i] = c) - 1

\* strings.Split(s, ".")[0]: the part of s before the first "."
RECURSIVE SplitFirst(_)
SplitFirst(s) ==
    IF s = <<>> THEN <<>>
    ELSE IF Head(s) = "." THEN <<>>
    ELSE <<Head(s)>> \o SplitFirst(Tail(s))

\* strings.TrimPrefix(s, "v")
TrimPrefixV(s) == IF s # <<>> /\ Head(s) = "v" THEN Tail(s) ELSE s

\* largest value of a signed 32-bit integer (bitSize 32)
MaxInt32 == 2147483647

\* the magnitude part of strconv.ParseInt: st is "ok" while the value fits in
\* 31 bits, "edge" when it is exactly 2^31, "over" when it is larger, "syntax"
\* on a character that is no decimal digit
RECURSIVE ParseMagnitude(_, _)
ParseMagnitude(s, acc) ==
    IF s = <<>> THEN acc
    ELSE IF ~IsDigit(Head(s)) THEN [st |-> "syntax", val |-> 0]
    ELSE LET d == DigitVal(Head(s))
             nxt == IF acc.st = "ok"
                    THEN IF acc.val < MaxInt32 \div 10
                            \/ (acc.val = MaxInt32 \div 10 /\ d <= MaxInt32 % 10)
                         THEN [st |-> "ok", val |-> acc.val * 10 + d]
                         ELSE IF acc.val = MaxInt32 \div 10 /\ d = (MaxInt32 % 10) + 1
                         THEN [st |-> "edge", val |-> 0]
                         ELSE [st |-> "over", val |-> 0]
                    ELSE [st |-> "over", val |-> 0]
         IN ParseMagnitude(Tail(s), nxt)

\* strconv.ParseInt(s, 10, 32): [err |-> TRUE] on a syntax or range error
ParseInt(s) ==
    LET neg  == s # <<>> /\ Head(s) = "-"
        sgn  == s # <<>> /\ Head(s) \in {"-", "+"}
        body == IF sgn THEN Tail(s) ELSE s
        m    == ParseMagnitude(body, [st |-> "ok", val |-> 0])
    IN IF body = <<>> \/ m.st \in {"syntax", "over"} THEN [err |-> TRUE, val |-> 0]
       ELSE IF m.st = "edge"
            THEN IF neg THEN [err |-> FALSE, val |-> (0 - MaxInt32) - 1]
                        ELSE [err |-> TRUE, val |-> 0]
       ELSE [err |-> FALSE, val |-> IF neg THEN 0 - m.val ELSE m.val]

\* uint32(v) for a signed 32-bit v, as the two 16-bit halves of the result
\* (values from 2^31 up do not fit TLC's integers)
ToUint32(v) ==
    IF v >= 0 THEN [hi |-> v \div 65536, lo |-> v % 65536]
    ELSE LET u == 0 - (v + 1)
         IN [hi |-> 65535 - (u \div 65536), lo |-> 65535 - (u % 65536)]

U32(n) == [hi |-> 0, lo |-> n]

\* the major version named by a version string: strconv.ParseInt(
\* strings.TrimPrefix(strings.Split(v, ".")[0], "v"), 10, 32)
ParseMajor(v) == ParseInt(TrimPrefixV(SplitFirst(v)))

(***************************************************************************)
(* JSON payloads and encoding/json.Unmarshal into the three containers     *)
(***************************************************************************)
\* version strings a payload may carry
VersionStrings ==
    { <<"2", ".", "0", ".", "0">>, <<"v", "1", ".", "3">>, <<"1">>,
      <<"3", ".", "0", ".", "0">>, <<"0">>, <<"-", "1">>, <<>>,
      <<"d", "e", "v">>, <<"4", "2", "9", "4", "9", "6", "7", "2", "9", "7">> }

NoStr == <<>>

\* the JSON value of the top-level Version member
VersionValues ==
    { [t |-> "absent", s |-> NoStr, n |-> 0], [t |-> "null", s |-> NoStr, n |-> 0] }
    \cup { [t |-> "string", s |-> v, n |-> 0] : v \in VersionStrings }
    \cup { [t |-> "number", s |-> NoStr, n |-> k] : k \in {1, 2} }

\* the JSON value of the top-level Data member; inner is the type of Data.Data
\* when Data is an object; intact tells whether the ciphertext it carries
\* passes the deserializer's checks
DataValues ==
    { [t |-> "absent", inner |-> "absent", intact |-> FALSE],
      [t |-> "number", inner |-> "absent", intact |-> FALSE] }
    \cup { [t |-> "string", inner |-> "absent", intact |-> b] : b \in BOOLEAN }
    \cup { [t |-> "object", inner |-> i, intact |-> FALSE] : i \in {"absent", "number"} }
    \cup { [t |-> "object", inner |-> "string", intact |-> b] : b \in BOOLEAN }

NoVersion == [t |-> "absent", s |-> NoStr, n |-> 0]
NoDataValue == [t |-> "absent", inner |-> "absent", intact |-> FALSE]

\* the byte strings the qr command may be handed
Payloads ==
    { [top |-> "object", Version |-> v, Data |-> d] : v \in VersionValues, d \in DataValues }
    \cup { [top |-> k, Version |-> NoVersion, Data |-> NoDataValue] :
              k \in {"invalid", "array", "null"} }

\* json.Unmarshal fails on text that is no JSON and on a top-level value
\* that is neither an object nor null
TopError(p) == p.top \in {"invalid", "array"}

\* json.Unmarshal(data, &versionContainer{}): Version is a Go string
UnmarshalVersionContainer(p) ==
    IF TopError(p) \/ (p.top = "object" /\ p.Version.t \notin {"absent", "null", "string"})
    THEN [err |-> TRUE, Version |-> NoStr]
    ELSE [err |-> FALSE,
          Version |-> IF p.top = "object" /\ p.Version.t = "string"
                      THEN p.Version.s ELSE NoStr]

\* json.Unmarshal(data, &dataContainer{}): Data is a Go string
UnmarshalDataContainer(p) ==
    [err |-> TopError(p)
             \/ (p.top = "object" /\ p.Data.t \notin {"absent", "null", "string"})]

\* json.Unmarshal(data, &dataContainerV1{}): Data is a dataContainer
UnmarshalDataContainerV1(p) ==
    [err |-> TopError(p)
             \/ (p.top = "object" /\ p.Data.t \notin {"absent", "null", "object"})
             \/ (p.top = "object" /\ p.Data.t = "object"
                 /\ p.Data.inner \notin {"absent", "null", "string"})]

\* the version sniffing of the qr command: which containers were tried, the
\* error it returns or the major version it settles on
SniffVersion(p) ==
    LET vc   == UnmarshalVersionContainer(p)
        dc   == UnmarshalDataContainer(p)
        dcV1 == UnmarshalDataContainerV1(p)
        pi   == ParseMajor(vc.Version)
    IN IF vc.err
       THEN IF dc.err
            THEN IF dcV1.err
                 THEN [err |-> "error deserializing data", tried |-> 3,
                       by |-> "none", major |-> U32(0)]
                 ELSE [err |-> "", tried |-> 3, by |-> "shape", major |-> U32(1)]
            ELSE [err |-> "", tried |-> 2, by |-> "shape", major |-> U32(2)]
       ELSE IF pi.err
            THEN [err |-> "error parsing version", tried |-> 1,
                  by |-> "none", major |-> U32(0)]
            ELSE [err |-> "", tried |-> 1, by |-> "version", major |-> ToUint32(pi.val)]

(***************************************************************************)
(* Inputs of the commands                                                  *)
(***************************************************************************)
\* values of --in-file, of the qr positional argument and of --out-file
GenerateInArgs == {"secret.json"}
QrInArgs == {"qr.png"}
OutArgs == {"-", "out.txt"}

\* the characters util.GenerateSerial draws from, and a sample of its results
SerialAlphabet == {"A", "K", "7"}
SerialSamples(length) == { [i \in 1..length |-> c] : c \in {"A", "K"} }

\* values of --serial-number
SerialArgs == { <<"A", "K", "7">>, <<"O", "0", "!">> }

\* values of --date, and the strings each time.Parse layout accepts
DateArgs == {"2024-01-01", "soon"}
LayoutRFC == {"Mon, 01 Jan 2024 00:00:00.000000000 UTC"}
LayoutDateTime == {"2024-01-01 00:00:00"}
LayoutDate == {"2024-01-01"}

\* passphrase lines as bufio.Reader.ReadString('\n') returns them
PassphraseLines == { <<"p", "\n">>, <<"p", "\r", "\n">> }

\* strings.ReplaceAll(strings.ReplaceAll(s, "\r", ""), "\n", "")
StripNewlines(s) == SelectSeq(s, LAMBDA c : c \notin {"\r", "\n"})

NoPayload == [top |-> "none", Version |-> NoVersion, Data |-> NoDataValue]
NoSniff == [err |-> "", tried |-> 0, by |-> "none", major |-> U32(0)]
NoCrypt == [set |-> FALSE, Version |-> "", SerialNumber |-> NoStr, CreatedAt |-> ""]

(***************************************************************************)
(* State                                                                   *)
(***************************************************************************)
VARIABLES
    \* package variables of cmd (generate.go:19-26), process-wide
    inFileName, outFileName, overrideOutFile, serialNumber, date,
    \* package variables of the qr command (--from-json, --to-json)
    qrCmdFromJSON, qrCmdToJSON,
    \* build metadata set once in main (VersionInfo.Version)
    VersionInfo,
    \* the paths that name an existing file
    files,
    \* the values flag parsing last gave serialNumber and inFileName
    parsed,
    \* number of invocations so far
    calls,
    \* position in the running command and its local state
    pc, run

vars == <<inFileName, outFileName, overrideOutFile, serialNumber, date,
          qrCmdFromJSON, qrCmdToJSON, VersionInfo, files, parsed, calls, pc, run>>

\* the locals of one invocation
NewRun(c, sGiven, pos, ex) ==
    [ cmd |-> c, serialGiven |-> sGiven, posArg |-> pos,
      existedAtStart |-> ex, generated |-> FALSE, timestamp |-> "",
      open |-> {}, deferred |-> {}, everOpened |-> {},
      inFile |-> "none", outFile |-> "none", created |-> FALSE,
      secretContents |-> FALSE, entered |-> <<>>,
      passphrase |-> NoStr, passphraseAgain |-> NoStr,
      encrypted |-> FALSE, crypt |-> NoCrypt,
      data |-> NoPayload, sniff |-> NoSniff, deserializer |-> 0,
      hasOutput |-> FALSE, output |-> 0, written |-> 0, writeCalls |-> 0,
      stdout |-> <<>>, afterWrite |-> 0,
      result |-> "running", msg |-> "" ]

\* main: the build metadata, then cmd.Execute
Init ==
    /\ inFileName = "" /\ outFileName = "" /\ overrideOutFile = FALSE
    /\ serialNumber = NoStr /\ date = ""
    /\ qrCmdFromJSON = FALSE /\ qrCmdToJSON = FALSE
    /\ VersionInfo = "dev"
    /\ files \in SUBSET {"out.txt"}
    /\ parsed = [serialNumber |-> NoStr, inFileName |-> ""]
    /\ calls = 0
    /\ pc = "idle"
    /\ run = NewRun("none", FALSE, FALSE, FALSE)

Idle == pc \in {"idle", "returned"}

\* fmt.Printf / fmt.Println: the message goes to os.Stdout, which is also
\* the output handle when outFileName is "" or "-"
FmtPrint(r, m) == [r EXCEPT !.stdout = Append(@, m)]

\* fmt.Printf(m); os.Exit(1): the process ends, deferred calls do not run
Exit(r, m) == [FmtPrint(r, m) EXCEPT !.result = "error", !.msg = m]

\* return from Run/RunE: the deferred Close calls run
Return(r, res, m) ==
    [r EXCEPT !.result = res, !.msg = m, !.open = r.open \ r.deferred]

(***************************************************************************)
(* cobra: flag parsing, then the command's Run                             *)
(***************************************************************************)
\* generate with --in-file i, --out-file o (both required), optionally
\* --force, --serial-number s, --date d.  A flag that is not given leaves
\* its variable as the previous invocation left it
InvokeGenerate ==
    /\ Idle /\ calls < MaxCalls
    /\ \E i \in GenerateInArgs, o \in OutArgs, f \in BOOLEAN,
          s \in SerialArgs \cup {NoStr}, d \in DateArgs \cup {""} :
          /\ inFileName' = i
          /\ outFileName' = o
          /\ overrideOutFile' = (overrideOutFile \/ f)
          /\ serialNumber' = IF s # NoStr THEN s ELSE serialNumber
          /\ date' = IF d # "" THEN d ELSE date
          /\ parsed' = [serialNumber |-> IF s # NoStr THEN s ELSE parsed.serialNumber,
                        inFileName |-> i]
          /\ run' = NewRun("generate", s # NoStr, FALSE, o \in files)
    /\ calls' = calls + 1
    /\ pc' = "g0"
    /\ UNCHANGED <<qrCmdFromJSON, qrCmdToJSON, VersionInfo, files>>

\* qr [input], optionally --from-json, --to-json
InvokeQr ==
    /\ Idle /\ calls < MaxCalls
    /\ \E pos \in BOOLEAN, j \in BOOLEAN, tj \in BOOLEAN :
          /\ qrCmdFromJSON' = (qrCmdFromJSON \/ j)
          /\ qrCmdToJSON' = (qrCmdToJSON \/ tj)
          /\ run' = NewRun("qr", FALSE, pos, outFileName \in files)
    /\ calls' = calls + 1
    /\ pc' = "q0"
    /\ UNCHANGED <<inFileName, outFileName, overrideOutFile, serialNumber, date,
                   VersionInfo, files, parsed>>

(***************************************************************************)
(* generate                                                                *)
(***************************************************************************)
FrameGlobals == UNCHANGED <<inFileName, outFileName, overrideOutFile, date,
                            qrCmdFromJSON, qrCmdToJSON, VersionInfo, parsed, calls>>

\* os.Stat(outFileName) returns no error
OutfileExists == outFileName \in files

\* variant of step 0 that reports the existing file and carries on
GenerateCheckOutfileNoExit ==
    /\ pc = "g0"
    /\ pc' = "g1"
    /\ run' = IF outFileName \in files
              THEN FmtPrint(run, IF overrideOutFile THEN "Overriding existing file"
                                                    ELSE "already exists")
              ELSE run
    /\ UNCHANGED <<serialNumber, files>>
    /\ FrameGlobals

\* 0. check if outfile exists
GenerateCheckOutfile ==
    /\ pc = "g0"
    /\ IF OutfileExists /\ ~overrideOutFile
       THEN /\ pc' = "exited"
            /\ run' = Exit(run, "already exists")
       ELSE /\ pc' = "g1"
            /\ run' = IF OutfileExists
                      THEN FmtPrint(run, "Overriding existing file")
                      ELSE run
    /\ UNCHANGED <<serialNumber, files>>
    /\ FrameGlobals

\* 1. generate serial number if not provided
GenerateSerialNumber ==
    /\ pc = "g1"
    /\ IF serialNumber = NoStr
       THEN \/ \E sn \in SerialSamples(6) :
                 /\ serialNumber' = sn
                 /\ run' = [run EXCEPT !.generated = TRUE]
                 /\ pc' = "g2"
            \/ /\ pc' = "exited"
               /\ run' = Exit(run, "Error generating serial number")
               /\ UNCHANGED serialNumber
       ELSE /\ pc' = "g2"
            /\ UNCHANGED <<serialNumber, run>>
    /\ UNCHANGED files
    /\ FrameGlobals

\* the three time.Parse attempts
ParseDate(d) ==
    IF d \in LayoutRFC THEN [err |-> FALSE, t |-> d]
    ELSE IF d \in LayoutDateTime THEN [err |-> FALSE, t |-> d]
    ELSE IF d \in LayoutDate THEN [err |-> FALSE, t |-> d]
    ELSE [err |-> TRUE, t |-> ""]

\* 2. parse date if provided
GenerateDate ==
    /\ pc = "g2"
    /\ IF date = ""
       THEN /\ pc' = "g3"
            /\ run' = [run EXCEPT !.timestamp = "now"]
       ELSE IF ParseDate(date).err
       THEN /\ pc' = "exited"
            /\ run' = Exit(run, "Error parsing date")
       ELSE /\ pc' = "g3"
            /\ run' = [run EXCEPT !.timestamp = ParseDate(date).t]
    /\ UNCHANGED <<serialNumber, files>>
    /\ FrameGlobals

\* 3. os.OpenFile(inFileName, os.O_RDONLY, 0)
GenerateOpenInput ==
    /\ pc = "g3"
    /\ \/ /\ pc' = "exited"
          /\ run' = Exit(run, "Error opening file")
       \/ /\ pc' = "g3b"
          /\ run' = [run EXCEPT !.inFile = "file",
                                !.open = @ \cup {"in"},
                                !.everOpened = @ \cup {"in"}]
    /\ UNCHANGED <<serialNumber, files>>
    /\ FrameGlobals

\* 3. decode the input as JSON and encode it again, minimized
GenerateReadJSON ==
    /\ pc = "g3b"
    /\ \/ /\ pc' = "exited"
          /\ run' = Exit(run, "Error decoding JSON")
       \/ /\ pc' = "g4"
          /\ run' = [run EXCEPT !.secretContents = TRUE]
    /\ UNCHANGED <<serialNumber, files>>
    /\ FrameGlobals

\* 4. print the prompt, read the passphrase from stdin
GenerateReadPassphrase ==
    /\ pc = "g4"
    /\ LET prompted == FmtPrint(run, "Enter your encryption passphrase")
       IN \/ /\ pc' = "exited"
             /\ run' = Exit(prompted, "Error reading passphrase")
          \/ \E line \in PassphraseLines :
                /\ pc' = "g4b"
                /\ run' = [prompted EXCEPT !.passphrase = line, !.entered = <<line>>]
    /\ UNCHANGED <<serialNumber, files>>
    /\ FrameGlobals

\* variant of step 4 that strips the line endings before comparing
GenerateReadPassphraseAgainStripFirst ==
    /\ pc = "g4b"
    /\ LET prompted == FmtPrint(run, "Enter your encryption passphrase again")
       IN \/ /\ pc' = "exited"
             /\ run' = Exit(prompted, "Error reading passphrase")
          \/ \E line \in PassphraseLines :
                IF StripNewlines(run.passphrase) # StripNewlines(line)
                THEN /\ pc' = "exited"
                     /\ run' = Exit([prompted EXCEPT !.passphraseAgain = line,
                                                     !.entered = Append(@, line)],
                                    "Passphrases do not match")
                ELSE /\ pc' = "g5"
                     /\ run' = [prompted EXCEPT
                                   !.passphraseAgain = NoStr,
                                   !.entered = Append(@, line),
                                   !.passphrase = StripNewlines(run.passphrase)]
    /\ UNCHANGED <<serialNumber, files>>
    /\ FrameGlobals

\* 4. print the second prompt, read again, compare, strip the line ending
GenerateReadPassphraseAgain ==
    /\ pc = "g4b"
    /\ LET prompted == FmtPrint(run, "Enter your encryption passphrase again")
       IN \/ /\ pc' = "exited"
             /\ run' = Exit(prompted, "Error reading passphrase")
          \/ \E line \in PassphraseLines :
                IF run.passphrase # line
                THEN /\ pc' = "exited"
                     /\ run' = Exit([prompted EXCEPT !.passphraseAgain = line,
                                                     !.entered = Append(@, line)],
                                    "Passphrases do not match")
                ELSE /\ pc' = "g5"
                     /\ run' = [prompted EXCEPT
                                   !.passphraseAgain = NoStr,
                                   !.entered = Append(@, line),
                                   !.passphrase = StripNewlines(run.passphrase)]
    /\ UNCHANGED <<serialNumber, files>>
    /\ FrameGlobals

\* variant of step 5 that reports an encryption failure and carries on
GenerateEncryptNoExit ==
    /\ pc = "g5"
    /\ \/ /\ pc' = "g6"
          /\ run' = [run EXCEPT !.passphrase = NoStr]
       \/ /\ pc' = "g6"
          /\ run' = [run EXCEPT !.encrypted = TRUE, !.passphrase = NoStr]
    /\ UNCHANGED <<serialNumber, files>>
    /\ FrameGlobals

\* 5. encrypt(passphrase, secretContentsMinimal)
GenerateEncrypt ==
    /\ pc = "g5"
    /\ \/ /\ pc' = "exited"
          /\ run' = Exit(run, "Error encrypting secret contents")
       \/ /\ pc' = "g6"
          /\ run' = [run EXCEPT !.encrypted = TRUE, !.passphrase = NoStr]
    /\ UNCHANGED <<serialNumber, files>>
    /\ FrameGlobals

\* the output is standard output
OutIsStd == outFileName = "" \/ outFileName = "-"

\* 4. open outFile: os.Stdout, or os.OpenFile(outFileName,
\* os.O_CREATE|os.O_WRONLY|os.O_TRUNC, 0600) and defer outFile.Close()
GenerateOpenOutput ==
    /\ pc = "g6"
    /\ IF OutIsStd
       THEN /\ pc' = "g7"
            /\ run' = [run EXCEPT !.outFile = "stdout"]
            /\ UNCHANGED files
       ELSE \/ /\ pc' = "exited"
               /\ run' = Exit(run, "Error opening file")
               /\ UNCHANGED files
            \/ /\ pc' = "g7"
               /\ files' = files \cup {outFileName}
               /\ run' = [run EXCEPT !.outFile = "file", !.created = TRUE,
                                     !.open = @ \cup {"out"},
                                     !.everOpened = @ \cup {"out"},
                                     !.deferred = @ \cup {"out"}]
    /\ UNCHANGED serialNumber
    /\ FrameGlobals

\* util.NewPaperCrypt(VersionInfo.Version, encryptedSecretContents,
\* serialNumber, purpose, comment, timestamp)
NewPaperCrypt(version, sn, ts) ==
    [set |-> TRUE, Version |-> version, SerialNumber |-> sn, CreatedAt |-> ts]

\* build the document and render it (crypt.GetPDF with --pdf, else crypt.GetText)
GenerateSerialize ==
    /\ pc = "g7"
    /\ LET crypt == NewPaperCrypt(VersionInfo, serialNumber, run.timestamp)
       IN \/ /\ pc' = "exited"
             /\ run' = Exit([run EXCEPT !.crypt = crypt], "Error creating file contents")
          \/ /\ pc' = "g8"
             /\ run' = [run EXCEPT !.crypt = crypt, !.hasOutput = TRUE,
                                   !.output = TextLen]
    /\ UNCHANGED <<serialNumber, files>>
    /\ FrameGlobals

\* the byte counts a failing Write of len bytes may have written
ShortWrites(len) == IF len = 0 THEN {0} ELSE 0..(len - 1)

\* outFile.Write(text), print the byte count and "Done!", then return: the
\* deferred outFile.Close() runs
GenerateWrite ==
    /\ pc = "g8"
    /\ \/ \E n \in ShortWrites(run.output) :
             /\ pc' = "exited"
             /\ run' = Exit([run EXCEPT !.written = @ + n, !.writeCalls = @ + 1,
                                        !.afterWrite = @ + 1],
                            "Error writing file")
       \/ /\ pc' = "returned"
          /\ run' = Return(FmtPrint(FmtPrint(
                               [run EXCEPT !.written = @ + run.output,
                                           !.writeCalls = @ + 1,
                                           !.afterWrite = @ + 2],
                               "Wrote bytes"), "Done!"),
                           "ok", "Done!")
    /\ UNCHANGED <<serialNumber, files>>
    /\ FrameGlobals

(***************************************************************************)
(* qr                                                                      *)
(***************************************************************************)
\* the input is standard input
InIsStd(name) == name = "" \/ name = "-"

\* 1. take the input path from the argument, internal.PrintInputAndGetReader,
\* defer inFile.Close().  The qr command itself prints nothing with fmt: its
\* errors are returned to cobra
QrOpenInput ==
    /\ pc = "q0"
    /\ \E arg \in QrInArgs :
        LET name == IF run.posArg THEN arg ELSE inFileName
        IN /\ inFileName' = name
           /\ IF InIsStd(name)
              THEN /\ pc' = "q1"
                   /\ run' = [run EXCEPT !.inFile = "stdin"]
              ELSE \/ /\ pc' = "returned"
                      /\ run' = Return(run, "error", "error opening input")
                   \/ /\ pc' = "q1"
                      /\ run' = [run EXCEPT !.inFile = "file",
                                            !.open = @ \cup {"in"},
                                            !.everOpened = @ \cup {"in"},
                                            !.deferred = @ \cup {"in"}]
    /\ UNCHANGED <<outFileName, overrideOutFile, serialNumber, date,
                   qrCmdFromJSON, qrCmdToJSON, VersionInfo, files, parsed, calls>>

\* the failures of the image branch before and after inFile.Close()
ImageErrorsBeforeClose == {"error decoding image"}
ImageErrorsAfterClose ==
    {"error closing input file", "error creating binary bitmap", "error decoding QR code"}

\* 1. read the payload: io.ReadAll with --from-json, else decode the image,
\* close the input, and read the QR code
QrReadInput ==
    /\ pc = "q1"
    /\ IF qrCmdFromJSON
       THEN \/ /\ pc' = "returned"
               /\ run' = Return(run, "error", "error reading input file")
            \/ \E p \in Payloads :
                  /\ pc' = "q2"
                  /\ run' = [run EXCEPT !.data = p]
       ELSE \/ \E m \in ImageErrorsBeforeClose :
                  /\ pc' = "returned"
                  /\ run' = Return(run, "error", m)
            \/ \E m \in ImageErrorsAfterClose :
                  /\ pc' = "returned"
                  /\ run' = Return([run EXCEPT !.open = @ \ {"in"}], "error", m)
            \/ \E p \in Payloads :
                  /\ pc' = "q2"
                  /\ run' = [run EXCEPT !.data = p, !.open = @ \ {"in"}]
    /\ UNCHANGED <<serialNumber, files>>
    /\ FrameGlobals

\* internal.GetFileHandleCarefully(outFileName, overrideOutFile): standard
\* output, or the file, which must not exist unless override is set
GetFileHandleCarefully(name, override) ==
    IF InIsStd(name) THEN {"stdout"}
    ELSE IF name \in files /\ ~override THEN {"error"}
    ELSE {"file", "error"}

\* 2. open the output file, defer internal.CloseFileIfNotStd(outFile)
QrOpenOutput ==
    /\ pc = "q2"
    /\ \E h \in GetFileHandleCarefully(outFileName, overrideOutFile) :
          \/ /\ h = "error"
             /\ pc' = "returned"
             /\ run' = Return(run, "error", "error opening output")
             /\ UNCHANGED files
          \/ /\ h = "stdout"
             /\ pc' = "q3"
             /\ run' = [run EXCEPT !.outFile = "stdout"]
             /\ UNCHANGED files
          \/ /\ h = "file"
             /\ pc' = "q3"
             /\ files' = files \cup {outFileName}
             /\ run' = [run EXCEPT !.outFile = "file", !.created = TRUE,
                                   !.open = @ \cup {"out"},
                                   !.everOpened = @ \cup {"out"},
                                   !.deferred = @ \cup {"out"}]
    /\ UNCHANGED serialNumber
    /\ FrameGlobals

\* --to-json: write the payload as read and return
QrWriteJSON ==
    /\ pc = "q3" /\ qrCmdToJSON
    /\ \/ \E n \in ShortWrites(DataLen) :
             /\ pc' = "returned"
             /\ run' = Return([run EXCEPT !.written = @ + n, !.writeCalls = @ + 1],
                              "error", "error writing output")
       \/ /\ pc' = "returned"
          /\ run' = Return([run EXCEPT !.written = @ + DataLen, !.writeCalls = @ + 1],
                           "ok", "")
    /\ UNCHANGED <<serialNumber, files>>
    /\ FrameGlobals

\* 3. decode version information or find .Data.Data
QrSniff ==
    /\ pc = "q3" /\ ~qrCmdToJSON
    /\ LET sn == SniffVersion(run.data)
       IN IF sn.err # ""
          THEN /\ pc' = "returned"
               /\ run' = Return([run EXCEPT !.sniff = sn], "error", sn.err)
          ELSE /\ pc' = "q4"
               /\ run' = [run EXCEPT !.sniff = sn]
    /\ UNCHANGED <<serialNumber, files>>
    /\ FrameGlobals

\* internal.PaperCryptV1: json.Unmarshal and GetText of a generation-1 payload
DeserializeV1(p) ==
    [err |-> ~(p.top = "object" /\ p.Data.t = "object" /\ p.Data.inner = "string"
               /\ p.Data.intact),
     len |-> TextLen]

\* internal.PaperCrypt: json.Unmarshal and GetText of a generation-2 payload
DeserializeV2(p) ==
    [err |-> ~(p.top = "object" /\ p.Data.t = "string" /\ p.Data.intact),
     len |-> TextLen]

\* switch paperCryptMajorVersion: the deserializer chosen (0: none), its
\* error and the length of output
Dispatch(major, p) ==
    IF major = U32(1)
    THEN [deserializer |-> 1, err |-> DeserializeV1(p).err,
          len |-> IF DeserializeV1(p).err THEN 0 ELSE DeserializeV1(p).len]
    ELSE IF major = U32(2)
    THEN [deserializer |-> 2, err |-> DeserializeV2(p).err,
          len |-> IF DeserializeV2(p).err THEN 0 ELSE DeserializeV2(p).len]
    ELSE [deserializer |-> 0, err |-> FALSE, len |-> 0]

\* 3. deserialize with the deserializer of the major version
QrDeserialize ==
    /\ pc = "q4"
    /\ LET d == Dispatch(run.sniff.major, run.data)
       IN IF d.err
          THEN /\ pc' = "returned"
               /\ run' = Return([run EXCEPT !.deserializer = d.deserializer],
                                "error", "error deserializing data")
          ELSE /\ pc' = "q5"
               /\ run' = [run EXCEPT !.deserializer = d.deserializer,
                                     !.hasOutput = d.deserializer # 0,
                                     !.output = d.len]
    /\ UNCHANGED <<serialNumber, files>>
    /\ FrameGlobals

\* 6. write output to the file and return
QrWrite ==
    /\ pc = "q5"
    /\ \/ \E n \in ShortWrites(run.output) :
             /\ pc' = "returned"
             /\ run' = Return([run EXCEPT !.written = @ + n, !.writeCalls = @ + 1],
                              "error", "error writing output")
       \/ /\ pc' = "returned"
          /\ run' = Return([run EXCEPT !.written = @ + run.output, !.writeCalls = @ + 1],
                           "ok", "")
    /\ UNCHANGED <<serialNumber, files>>
    /\ FrameGlobals

Next ==
    \/ InvokeGenerate
    \/ InvokeQr
    \/ GenerateCheckOutfile
    \/ GenerateSerialNumber
    \/ GenerateDate
    \/ GenerateOpenInput
    \/ GenerateReadJSON
    \/ GenerateReadPassphrase
    \/ GenerateReadPassphraseAgain
    \/ GenerateEncrypt
    \/ GenerateOpenOutput
    \/ GenerateSerialize
    \/ GenerateWrite
    \/ QrOpenInput
    \/ QrReadInput
    \/ QrOpenOutput
    \/ QrWriteJSON
    \/ QrSniff
    \/ QrDeserialize
    \/ QrWrite

Spec == Init /\ [][Next]_vars
(***************************************************************************)
(* Properties                                                              *)
(***************************************************************************)
Ended == pc \in {"returned", "exited"}

\* the qr command has run its version sniffing on the payload
Sniffed == run.cmd = "qr" /\ run.sniff.tried > 0

HasVersionField(p) == p.top = "object" /\ p.Version.t \in {"string", "number"}
HasFlatData(p) == p.top = "object" /\ p.Data.t = "string"
HasNestedData(p) == p.top = "object" /\ p.Data.t = "object" /\ p.Data.inner = "string"

\* the major version a Version member names
NamedMajor(v) == IF v.t = "number" THEN U32(v.n) ELSE ToUint32(ParseMajor(v.s).val)

\* C1: whenever sniffing settles on a major version for a payload that has
\* a Version member (string or number) and a Data member of either shape,
\* that major version is the one the Version member names.
C1_VersionBeatsShape ==
    (Sniffed /\ run.sniff.err = ""
        /\ HasVersionField(run.data)
        /\ (HasFlatData(run.data) \/ HasNestedData(run.data)))
    => run.sniff.major = NamedMajor(run.data.Version)

\* C2: a payload without a Version member is classified by shape and is not
\* rejected by the sniffing: flat Data gives major version 2, nested
\* Data.Data gives major version 1.
C2_NoVersionClassifiedByShape ==
    (Sniffed /\ run.data.top = "object" /\ run.data.Version.t = "absent")
    => /\ HasFlatData(run.data)
          => (run.sniff.err = "" /\ run.sniff.major = U32(2))
       /\ (~HasFlatData(run.data) /\ HasNestedData(run.data))
          => (run.sniff.err = "" /\ run.sniff.major = U32(1))

\* C3: a qr run whose Version member parsed as a major version other than 1
\* and 2 ends in an error; no qr run that sniffed ends in success without a
\* deserializer having run.
C3_UnknownMajorFails ==
    (pc = "returned" /\ Sniffed)
    => /\ (run.sniff.by = "version" /\ run.sniff.major \notin {U32(1), U32(2)})
          => run.result = "error"
       /\ run.result = "ok" => run.deserializer # 0

\* the payload satisfies none of the three sniffing rules
MatchesNoRule(p) ==
    /\ ~(p.top = "object" /\ p.Version.t # "absent")
    /\ ~HasFlatData(p)
    /\ ~HasNestedData(p)

\* C4: a payload matching none of the three rules ends in the unrecognized-
\* format error after all three rules were tried, is never given a major
\* version, and nothing is written.
C4_NoRuleMeansUnrecognized ==
    (pc = "returned" /\ Sniffed /\ MatchesNoRule(run.data))
    => /\ run.result = "error"
       /\ run.msg = "error deserializing data"
       /\ run.sniff.tried = 3
       /\ run.deserializer = 0
       /\ run.written = 0

\* C5: when a run has ended, every file handle it opened has been closed.
C5_HandlesClosedAtEnd == Ended => run.open = {}

InAlphabet(sn) == sn # NoStr /\ \A i \in 1..Len(sn) : sn[i] \in SerialAlphabet

\* C6: the SerialNumber of every Document generate builds is non-empty and
\* made of alphabet characters only.
C6_SerialInAlphabet == run.crypt.set => InAlphabet(run.crypt.SerialNumber)

\* C7: no Run writes a package variable that a later invocation reads: when
\* a command starts, serialNumber and inFileName hold what flag parsing
\* gave them.
C7_CallsIndependent ==
    pc \in {"g0", "q0"}
    => (serialNumber = parsed.serialNumber /\ inFileName = parsed.inFileName)

\* the two passphrase entries were read and differ
EntriesDiffer == Len(run.entered) = 2 /\ run.entered[1] # run.entered[2]

\* C8: generate encrypts only after two identical passphrase entries were
\* read; when the entries differ it has exited with an error message, has
\* not encrypted and has not opened, created or written the output.
C8_EncryptAfterMatch ==
    run.cmd = "generate"
    => /\ run.encrypted
          => (Len(run.entered) = 2 /\ run.entered[1] = run.entered[2])
       /\ EntriesDiffer
          => /\ pc = "exited" /\ run.result = "error" /\ run.msg # ""
             /\ ~run.encrypted /\ ~run.created
             /\ run.outFile = "none" /\ run.writeCalls = 0

C8_Witness == run.cmd = "generate" /\ pc = "exited" /\ EntriesDiffer

\* C9: when the output path named an existing file at the start of generate
\* and --force is not set, generate exits with an error in its first step:
\* no serial generated, no input opened, no passphrase read, nothing
\* encrypted, the file not opened for writing.
C9_NoOverwriteWithoutForce ==
    (run.cmd = "generate" /\ run.existedAtStart /\ ~overrideOutFile)
    => /\ pc \in {"g0", "exited"}
       /\ pc = "exited" => run.result = "error"
       /\ ~run.generated /\ run.timestamp = "" /\ run.inFile = "none"
       /\ run.entered = <<>> /\ ~run.encrypted
       /\ ~run.created /\ run.outFile = "none" /\ run.writeCalls = 0

C9_Witness ==
    /\ run.cmd = "generate" /\ run.existedAtStart /\ ~overrideOutFile
    /\ pc = "exited"

\* the steps of generate before the write have all succeeded
GenerateStepsSucceeded ==
    /\ serialNumber # NoStr /\ run.timestamp # ""
    /\ run.secretContents
    /\ Len(run.entered) = 2 /\ run.entered[1] = run.entered[2]
    /\ run.encrypted /\ run.crypt.set /\ run.hasOutput

\* qr has read its input, classified it and deserialized it
QrStepsSucceeded ==
    /\ run.data # NoPayload
    /\ run.sniff.tried > 0 /\ run.sniff.err = ""
    /\ run.deserializer # 0
    /\ ~Dispatch(run.sniff.major, run.data).err

\* every earlier step named by C10 has succeeded
EarlierStepsSucceeded ==
    IF run.cmd = "generate" THEN GenerateStepsSucceeded ELSE QrStepsSucceeded

\* the same, with classification and deserialization not required of a
\* --to-json run, which writes the payload as read
EarlierStepsSucceededOrToJSON ==
    IF run.cmd = "generate" THEN GenerateStepsSucceeded
    ELSE run.data # NoPayload /\ (qrCmdToJSON \/ QrStepsSucceeded)

WriteFailures == {"Error writing file", "error writing output"}

\* standard output is the output handle of the running command
StdoutIsOutput == run.cmd \in {"generate", "qr"} /\ InIsStd(outFileName)

\* what has reached the output handle: the bytes of outFile.Write and, when
\* the handle is standard output, the messages printed with fmt (each at
\* least one byte)
HandleBytes == run.written + (IF StdoutIsOutput THEN Len(run.stdout) ELSE 0)

\* a run that ended in an error
EndedInError == Ended /\ run.result = "error"

\* generate does not create or truncate the output before encryption succeeded
NoOutputBeforeEncryption == (run.cmd = "generate" /\ ~run.encrypted) => ~run.created

\* C10 as stated: bytes reach the output handle at most once, as the last
\* step and only after every earlier step (for qr: input read,
\* classification, deserialization) succeeded; a run that ended in an error
\* has put no byte on the output handle; generate does not create the output
\* before encryption succeeded.
C10_WriteLastNoBytesOnError ==
    /\ run.writeCalls <= 1
    /\ run.writeCalls = 1 => Ended
    /\ HandleBytes > 0 => (run.writeCalls = 1 /\ EarlierStepsSucceeded)
    /\ StdoutIsOutput => run.afterWrite = 0
    /\ EndedInError => HandleBytes = 0
    /\ NoOutputBeforeEncryption

\* C10 amended: outFile.Write puts bytes on the output at most once, as the
\* last processing step and only after every earlier step succeeded (a
\* --to-json run needs only its input read); a run that ended in an error
\* other than a failure of that Write has written nothing with it, and when
\* the output is a file no byte has reached the file; generate does not
\* create the output before encryption succeeded.
C10_WriteLastNoBytesBeforeWrite ==
    /\ run.writeCalls <= 1
    /\ run.writeCalls = 1 => Ended
    /\ run.written > 0 => (run.writeCalls = 1 /\ EarlierStepsSucceededOrToJSON)
    /\ (EndedInError /\ run.msg \notin WriteFailures)
       => /\ run.written = 0 /\ run.writeCalls = 0
          /\ ~StdoutIsOutput => HandleBytes = 0
    /\ NoOutputBeforeEncryption

\* The three departures of the amended C10 from C10 as stated, one at a
\* time: each formula is C10 as stated with the other two departures
\* granted, and each is violated.
\* C10, granting everything but a failing Write that wrote part of the output
C10_OnlyShortWriteDenied ==
    /\ run.written > 0 => (run.writeCalls = 1 /\ EarlierStepsSucceededOrToJSON)
    /\ EndedInError => run.written = 0

\* C10, granting everything but the --to-json run that writes unclassified
C10_OnlyToJSONDenied ==
    run.written > 0 => (run.writeCalls = 1 /\ EarlierStepsSucceeded)

\* C10, granting everything but generate's messages on standard output
C10_OnlyStdoutMessagesDenied ==
    /\ (StdoutIsOutput /\ HandleBytes > 0)
       => (run.writeCalls = 1 /\ EarlierStepsSucceededOrToJSON)
    /\ StdoutIsOutput => run.afterWrite = 0
    /\ (StdoutIsOutput /\ EndedInError /\ run.msg \notin WriteFailures)
       => HandleBytes = 0

C10_Witness ==
    /\ pc = "returned" /\ run.cmd = "qr" /\ run.result = "error"
    /\ run.msg = "error deserializing data"
    /\ run.outFile = "file" /\ run.deserializer # 0 /\ run.written = 0
====
